---- MODULE Spec2Model ----
(***************************************************************************)
(* Model of the transaction codecs of ethers-core: the fee-market request  *)
(* (eip1559.rs), the signed typed transactions (signed.rs), the            *)
(* name-or-address union (ens.rs) and the log (log.rs).                    *)
(*                                                                         *)
(* Byte strings are sequences over 0..255.  A U256 / U64 value is held as  *)
(* its minimal big-endian byte string (no leading zero byte, zero is the   *)
(* empty string), so that 256-bit values stay exact.  An Option is a       *)
(* sequence of length 0 (None) or 1 (Some).                                *)
(***************************************************************************)
EXTENDS Integers, Sequences, FiniteSets, TLC

VARIABLES inp, op, out, stdout

vars == <<inp, op, out, stdout>>

----------------------------------------------------------------------------
(* Bounds of the model                                                     *)

\* longest call data / log data drawn for the inputs, in bytes
MaxDataLen == 2
\* most storage keys in the one access-list entry drawn for the inputs
MaxKeys == 1
\* most topics drawn for a log
MaxTopics == 1
\* most items appended after the fields of a signed body
MaxExtraItems == 2
\* largest signature v drawn for the chain-id derivation
MaxV == 44
\* most (chain, address) pairs in an address-book Contract
MaxPairs == 2
\* most builder calls chained on a new request
MaxCalls == 3

----------------------------------------------------------------------------
(* Bytes                                                                   *)

None == <<>>

Some(x) == <<x>>

Rep(b, n) == [i \in 1..n |-> b]

Drop(s, n) == IF n >= Len(s) THEN <<>> ELSE SubSeq(s, n + 1, Len(s))

Take(s, n) == IF n >= Len(s) THEN s ELSE SubSeq(s, 1, n)

RECURSIVE StripZeros(_)
StripZeros(s) ==
    IF s = <<>> THEN <<>>
    ELSE IF s[1] = 0 THEN StripZeros(Tail(s)) ELSE s

RECURSIVE BE(_)
\* minimal big-endian bytes of a length
BE(n) == IF n = 0 THEN <<>> ELSE Append(BE(n \div 256), n % 256)

\* a length too large for the model's integers: larger than any buffer
BigLen == 1000000

RECURSIVE BytesToNat(_)
BytesToNat(s) ==
    IF s = <<>> THEN 0
    ELSE IF Len(StripZeros(s)) > 2 THEN BigLen
    ELSE BytesToNat(SubSeq(s, 1, Len(s) - 1)) * 256 + s[Len(s)]

RECURSIVE Flatten(_)
Flatten(ss) == IF ss = <<>> THEN <<>> ELSE Head(ss) \o Flatten(Tail(ss))

\* number of significant bits of one byte
ByteBits(b) ==
    IF b >= 128 THEN 8 ELSE IF b >= 64 THEN 7 ELSE IF b >= 32 THEN 6
    ELSE IF b >= 16 THEN 5 ELSE IF b >= 8 THEN 4 ELSE IF b >= 4 THEN 3
    ELSE IF b >= 2 THEN 2 ELSE IF b >= 1 THEN 1 ELSE 0

\* U256::bits() of a value held as its minimal big-endian bytes
Bits(v) == IF v = <<>> THEN 0 ELSE 8 * (Len(v) - 1) + ByteBits(v[1])

\* U256::leading_zeros()
LeadingZeros(v) == 256 - Bits(v)

\* U256::to_big_endian into the 32-byte container
ToBigEndian32(v) == Rep(0, 32 - Len(v)) \o v

ZeroAddress == Rep(0, 20)

AddrA == Rep(17, 20)

Ok(v, rest) == [st |-> "ok", val |-> v, rest |-> rest, err |-> ""]

Err(e) == [st |-> "err", val |-> <<>>, rest |-> <<>>, err |-> e]

Panic(e) == [st |-> "panic", val |-> <<>>, rest |-> <<>>, err |-> e]

\* the ? operator: the failure as it is, or the rest of the function applied
\* to the value and to the bytes that remain
Bind(d, F(_, _)) == IF d.st # "ok" THEN d ELSE F(d.val, d.rest)

----------------------------------------------------------------------------
(* fastrlp primitives used by the codecs                                   *)

\* fastrlp::length_of_length: the length of the header of a payload
length_of_length(n) == IF n < 56 THEN 1 ELSE 1 + Len(BE(n))

\* fastrlp::Header::encode
HeaderEncode(list, n) ==
    IF n < 56 THEN << (IF list THEN 192 ELSE 128) + n >>
    ELSE << (IF list THEN 247 ELSE 183) + Len(BE(n)) >> \o BE(n)

\* <&[u8] as fastrlp::Encodable>::encode
BytesEncode(b) ==
    IF Len(b) # 1 \/ b[1] >= 128 THEN HeaderEncode(FALSE, Len(b)) \o b ELSE b

\* <&[u8] as fastrlp::Encodable>::length
BytesLength(b) ==
    IF Len(b) # 1 \/ b[1] >= 128 THEN Len(b) + length_of_length(Len(b)) ELSE Len(b)

\* <u64 as fastrlp::Encodable>::encode
U64Encode(v) ==
    IF v = <<>> THEN <<128>>
    ELSE IF Len(v) = 1 /\ v[1] < 128 THEN v
    ELSE <<128 + Len(v)>> \o v

\* <u64 as fastrlp::Encodable>::length
U64Length(v) == IF v = <<>> \/ (Len(v) = 1 /\ v[1] < 128) THEN 1 ELSE 1 + Len(v)

\* bytes::BufMut::put_uint: the low nbytes bytes of n, big-endian
PutUint(n, nbytes) ==
    IF Len(BE(n)) >= nbytes THEN Drop(BE(n), Len(BE(n)) - nbytes)
    ELSE Rep(0, nbytes - Len(BE(n))) \o BE(n)

\* the long form of fastrlp::Header::decode: len_of_len length bytes follow the tag
HeaderDecodeLong(list, buf, lol) ==
    LET b1 == Tail(buf)
        lb == Take(b1, lol)
        n  == BytesToNat(lb)
        r  == Drop(b1, lol)
    IN  IF Len(b1) < lol THEN Err("InputTooShort")
        ELSE IF lb[1] = 0 THEN Err("LeadingZero")
        ELSE IF n < 56 THEN Err("NonCanonicalSize")
        ELSE IF Len(r) < n THEN Err("InputTooShort")
        ELSE Ok([list |-> list, payload_length |-> n], r)

\* fastrlp::Header::decode: the header read off the front of buf, checked
\* against the bytes that remain
HeaderDecode(buf) ==
    IF buf = <<>> THEN Err("InputTooShort")
    ELSE LET b == buf[1] IN
      IF b < 128 THEN Ok([list |-> FALSE, payload_length |-> 1], buf)
      ELSE IF b < 184 THEN
        LET r == Tail(buf)
            n == b - 128
        IN  IF n = 1 /\ r = <<>> THEN Err("InputTooShort")
            ELSE IF n = 1 /\ r[1] < 128 THEN Err("NonCanonicalSingleByte")
            ELSE IF Len(r) < n THEN Err("InputTooShort")
            ELSE Ok([list |-> FALSE, payload_length |-> n], r)
      ELSE IF b < 192 THEN HeaderDecodeLong(FALSE, buf, b - 183)
      ELSE IF b < 248 THEN
        IF Len(buf) - 1 < b - 192 THEN Err("InputTooShort")
        ELSE Ok([list |-> TRUE, payload_length |-> b - 192], Tail(buf))
      ELSE HeaderDecodeLong(TRUE, buf, b - 247)

\* <bytes::Bytes as fastrlp::Decodable>::decode
BytesDecode(buf) ==
    Bind(HeaderDecode(buf), LAMBDA h, rest :
        IF h.list THEN Err("UnexpectedList")
        ELSE Ok(Take(rest, h.payload_length), Drop(rest, h.payload_length)))

\* <[u8; N] as fastrlp::Decodable>::decode (Address: N = 20, H256: N = 32)
FixedDecode(buf, n) ==
    Bind(HeaderDecode(buf), LAMBDA h, rest :
        IF h.list THEN Err("UnexpectedList")
        ELSE IF h.payload_length # n THEN Err("UnexpectedLength")
        ELSE Ok(Take(rest, n), Drop(rest, n)))

RECURSIVE FixedItemsDecode(_, _, _)
\* the loop of <Vec<E> as fastrlp::Decodable>::decode over the payload view
FixedItemsDecode(view, n, acc) ==
    IF view = <<>> THEN Ok(acc, <<>>)
    ELSE Bind(FixedDecode(view, n), LAMBDA v, rest :
             FixedItemsDecode(rest, n, Append(acc, v)))

\* <Vec<H256> as fastrlp::Decodable>::decode
VecH256Decode(buf) ==
    Bind(HeaderDecode(buf), LAMBDA h, rest :
        IF ~h.list THEN Err("UnexpectedString")
        ELSE Bind(FixedItemsDecode(Take(rest, h.payload_length), 32, <<>>),
                  LAMBDA keys, none : Ok(keys, Drop(rest, h.payload_length))))

\* <Vec<H256> as fastrlp::Encodable>::encode
VecH256Encode(keys) ==
    LET body == Flatten([i \in 1..Len(keys) |-> BytesEncode(keys[i])])
    IN  HeaderEncode(TRUE, Len(body)) \o body

----------------------------------------------------------------------------
(* NameOrAddress (ens.rs)                                                  *)

Address(a) == [tag |-> "Address", val |-> a]

\* the ENS name "ens.eth" of the tests, as bytes
Name == [tag |-> "Name", val |-> <<101, 110, 115>>]

\* <NameOrAddress as fastrlp::Encodable>::length
NameOrAddressLength(x) ==
    IF x.tag = "Name" THEN 0
    ELSE IF x.val = ZeroAddress THEN 1
    ELSE BytesLength(x.val)

\* <NameOrAddress as fastrlp::Encodable>::encode
NameOrAddressEncode(x) ==
    IF x.tag = "Address"
    THEN IF x.val = ZeroAddress THEN <<128>> ELSE BytesEncode(x.val)
    ELSE <<>>

\* <NameOrAddress as fastrlp::Decodable>::decode
NameOrAddressDecode(buf) ==
    Bind(FixedDecode(buf, 20), LAMBDA a, rest : Ok(Address(a), rest))

----------------------------------------------------------------------------
(* AccessList (eip2930.rs): a list of [address, [storage keys]] items      *)

AccessListItemEncode(it) ==
    LET body == BytesEncode(it.address) \o VecH256Encode(it.storage_keys)
    IN  HeaderEncode(TRUE, Len(body)) \o body

AccessListEncode(al) ==
    LET body == Flatten([i \in 1..Len(al) |-> AccessListItemEncode(al[i])])
    IN  HeaderEncode(TRUE, Len(body)) \o body

AccessListItemDecode(buf) ==
    Bind(HeaderDecode(buf), LAMBDA h, rest :
        IF ~h.list THEN Err("UnexpectedString")
        ELSE Bind(FixedDecode(Take(rest, h.payload_length), 20), LAMBDA a, r1 :
             Bind(VecH256Decode(r1), LAMBDA keys, r2 :
                 IF r2 # <<>> THEN Err("ListLengthMismatch")
                 ELSE Ok([address |-> a, storage_keys |-> keys],
                         Drop(rest, h.payload_length)))))

RECURSIVE AccessListItemsDecode(_, _)
AccessListItemsDecode(view, acc) ==
    IF view = <<>> THEN Ok(acc, <<>>)
    ELSE Bind(AccessListItemDecode(view), LAMBDA it, rest :
             AccessListItemsDecode(rest, Append(acc, it)))

AccessListDecode(buf) ==
    Bind(HeaderDecode(buf), LAMBDA h, rest :
        IF ~h.list THEN Err("UnexpectedString")
        ELSE Bind(AccessListItemsDecode(Take(rest, h.payload_length), <<>>),
                  LAMBDA items, none : Ok(items, Drop(rest, h.payload_length))))

----------------------------------------------------------------------------
(* Eip1559TransactionRequest (eip1559.rs)                                  *)

\* Eip1559TransactionRequest::new(): every field None, the access list empty
NewRequest ==
    [from |-> None, to |-> None, gas |-> None, value |-> None, data |-> None,
     nonce |-> None, access_list |-> <<>>, max_priority_fee_per_gas |-> None,
     max_fee_per_gas |-> None, chain_id |-> None]

\* the builder helpers: each takes the request by value, sets its own field to
\* the argument converted by into(), which keeps the value, and returns it
from(self, a) == [self EXCEPT !.from = Some(a)]

to(self, x) == [self EXCEPT !.to = Some(x)]

gas(self, v) == [self EXCEPT !.gas = Some(v)]

max_priority_fee_per_gas(self, v) == [self EXCEPT !.max_priority_fee_per_gas = Some(v)]

\* a max_fee_per_gas that writes the field of the builder above it
max_fee_per_gas_sets_priority(self, v) == [self EXCEPT !.max_priority_fee_per_gas = Some(v)]

max_fee_per_gas(self, v) == [self EXCEPT !.max_fee_per_gas = Some(v)]

value(self, v) == [self EXCEPT !.value = Some(v)]

data(self, b) == [self EXCEPT !.data = Some(b)]

\* the access list is not an Option: the argument replaces it
access_list(self, l) == [self EXCEPT !.access_list = l]

nonce(self, v) == [self EXCEPT !.nonce = Some(v)]

chain_id(self, v) == [self EXCEPT !.chain_id = Some(v)]

\* Option::unwrap_or_default of a U256, Bytes
OrDefault(o) == IF o = None THEN <<>> ELSE o[1]

\* self.chain_id.unwrap_or_else(U64::one)
ChainOrOne(r) == IF r.chain_id = None THEN <<1>> ELSE r.chain_id[1]

\* self.to.to_owned().unwrap_or_else(|| NameOrAddress::Address(Address::default()))
ToOrZero(r) == IF r.to = None THEN Address(ZeroAddress) ELSE r.to[1]

\* the length and header contribution of one U256 field in length():
\* 32 - leading_zeros / 8, plus one unless the value is < 0x7f
UintFieldLength(o) ==
    LET v == OrDefault(o) IN
    (32 - LeadingZeros(v) \div 8)
      + (IF v = <<>> \/ (Len(v) = 1 /\ v[1] < 127) THEN 0 ELSE 1)

\* <Eip1559TransactionRequest as fastrlp::Encodable>::length
Eip1559Length(r) ==
    U64Length(ChainOrOne(r))
    + UintFieldLength(r.nonce)
    + UintFieldLength(r.max_priority_fee_per_gas)
    + UintFieldLength(r.max_fee_per_gas)
    + UintFieldLength(r.gas)
    + NameOrAddressLength(ToOrZero(r))
    + UintFieldLength(r.value)
    + BytesLength(OrDefault(r.data))
    + Len(AccessListEncode(r.access_list))

\* the index 31 - bits / 8 at which encode() slices the 32-byte container;
\* negative when the subtraction underflows
UintSliceStart(v) == 31 - Bits(v) \div 8

\* the bytes encode() writes for one U256 field:
\* to_big_endian, &uint_container[31 - bits / 8..], then the slice's encode
UintFieldEncode(o) ==
    LET v == OrDefault(o) IN
    BytesEncode(Drop(ToBigEndian32(v), UintSliceStart(v)))

\* the list header encode() writes first
Eip1559Header(r) ==
    LET n == Eip1559Length(r) IN
    IF n <= 55 THEN <<n + 192>>
    ELSE PutUint(n, length_of_length(n)) \o <<247 + length_of_length(n)>>

\* the fields encode() writes after the header, in order
Eip1559Fields(r) ==
    << U64Encode(ChainOrOne(r)),
       UintFieldEncode(r.nonce),
       UintFieldEncode(r.max_priority_fee_per_gas),
       UintFieldEncode(r.max_fee_per_gas),
       UintFieldEncode(r.gas),
       NameOrAddressEncode(ToOrZero(r)),
       UintFieldEncode(r.value),
       BytesEncode(OrDefault(r.data)),
       AccessListEncode(r.access_list) >>

\* encode() panics when a slice start underflows
Eip1559EncodePanics(r) ==
    \E o \in {r.nonce, r.max_priority_fee_per_gas, r.max_fee_per_gas, r.gas, r.value} :
        UintSliceStart(OrDefault(o)) < 0

\* <Eip1559TransactionRequest as fastrlp::Encodable>::encode
Eip1559Encode(r) ==
    IF Eip1559EncodePanics(r) THEN Panic("slice index")
    ELSE Ok(Eip1559Header(r) \o Flatten(Eip1559Fields(r)), <<>>)

\* the header strip at the top of decode(): one byte, or 1 + (header - 0xf7)
\* bytes sliced off without a look at the buffer's length
StripHeader(buf) ==
    IF buf = <<>> THEN Err("Cannot decode a transaction from an empty list")
    ELSE IF buf[1] <= 247 THEN Ok(<<>>, Tail(buf))
    ELSE IF 1 + (buf[1] - 247) > Len(buf) THEN Panic("slice index")
    ELSE Ok(<<>>, Drop(buf, 1 + (buf[1] - 247)))

\* Bytes::decode(buf)?[..].into(): a byte string read as a big-endian integer
\* of at most max bytes; from_big_endian asserts the length
UintFieldDecode(buf, max) ==
    Bind(BytesDecode(buf), LAMBDA b, rest :
        IF Len(b) > max THEN Panic("from_big_endian") ELSE Ok(StripZeros(b), rest))

\* the recipient step of decode(): 0x80 is None, anything else an address
ToFieldDecode(buf) ==
    IF buf = <<>> THEN Err("cannot decode an address from an empty list")
    ELSE IF buf[1] = 128 THEN Ok(None, Tail(buf))
    ELSE Bind(NameOrAddressDecode(buf), LAMBDA a, rest : Ok(Some(a), rest))

\* the call-data step of decode(): an empty string is None
DataFieldDecode(buf) ==
    Bind(BytesDecode(buf), LAMBDA b, rest :
        Ok(IF b = <<>> THEN None ELSE Some(b), rest))

\* the kinds of the nine fields decode() reads, in order:
\* [chain_id, nonce, max_priority_fee_per_gas, max_fee_per_gas, gas_limit,
\*  destination, amount, data, access_list]
Eip1559FieldKinds ==
    <<"u64", "u256", "u256", "u256", "u256", "to", "u256", "data", "access_list">>

\* one step of decode(): the field of kind k read off the front of buf
FieldDecode(k, buf) ==
    IF k = "u64" THEN UintFieldDecode(buf, 8)
    ELSE IF k = "u256" THEN UintFieldDecode(buf, 32)
    ELSE IF k = "to" THEN ToFieldDecode(buf)
    ELSE IF k = "data" THEN DataFieldDecode(buf)
    ELSE AccessListDecode(buf)

RECURSIVE FieldsDecode(_, _, _)
\* the steps of decode() in sequence, the first failure ending it
FieldsDecode(kinds, buf, acc) ==
    IF kinds = <<>> THEN Ok(acc, buf)
    ELSE Bind(FieldDecode(Head(kinds), buf), LAMBDA v, rest :
             FieldsDecode(Tail(kinds), rest, Append(acc, v)))

\* the request decode() assembles from the nine values read
DecodedRequest(f) ==
    [from |-> None, to |-> f[6], gas |-> Some(f[5]), value |-> Some(f[7]),
     data |-> f[8], nonce |-> Some(f[2]), access_list |-> f[9],
     max_priority_fee_per_gas |-> Some(f[3]), max_fee_per_gas |-> Some(f[4]),
     chain_id |-> Some(f[1])]

RECURSIVE PrintedAfter(_, _)
\* the buffers decode() prints from one step on: the buffer as the step d left
\* it when it did not fail, then those of the steps that follow
PrintedAfter(d, kinds) ==
    IF d.st # "ok" THEN <<>>
    ELSE IF kinds = <<>> THEN <<d.rest>>
    ELSE <<d.rest>> \o PrintedAfter(FieldDecode(Head(kinds), d.rest), Tail(kinds))

\* what decode() writes to standard output: the buffer before the header
\* strip, after it, and after each field read, up to the first failure
Eip1559DecodePrinted(buf) ==
    IF buf = <<>> THEN <<>>
    ELSE <<buf>> \o PrintedAfter(StripHeader(buf), Eip1559FieldKinds)

\* <Eip1559TransactionRequest as fastrlp::Decodable>::decode
Eip1559Decode(buf) ==
    Bind(StripHeader(buf), LAMBDA none, body :
        Bind(FieldsDecode(Eip1559FieldKinds, body, <<>>), LAMBDA f, rest :
            Ok(DecodedRequest(f), rest)))

----------------------------------------------------------------------------
(* rlp primitives used by the codecs (RlpStream, Rlp)                      *)

\* Encoder::encode_value: a byte string with its string header
RlpEncodeValue(b) ==
    IF b = <<>> THEN <<128>>
    ELSE IF Len(b) = 1 /\ b[1] < 128 THEN b
    ELSE IF Len(b) <= 55 THEN <<128 + Len(b)>> \o b
    ELSE <<183 + Len(BE(Len(b)))>> \o BE(Len(b)) \o b

\* RlpStream::begin_list(n) followed by n appended items
RlpList(items) ==
    LET body == Flatten(items) IN
    IF Len(body) <= 55 THEN <<192 + Len(body)>> \o body
    ELSE <<247 + Len(BE(Len(body)))>> \o BE(Len(body)) \o body

\* calculate_payload_info: the long header forms
PayloadInfoLong(bytes, lol) ==
    IF Len(bytes) < 2 THEN Err("RlpIsTooShort")
    ELSE IF bytes[2] = 0 THEN Err("RlpDataLenWithZeroPrefix")
    ELSE IF Len(bytes) < 1 + lol THEN Err("RlpIsTooShort")
    ELSE LET n == BytesToNat(SubSeq(bytes, 2, 1 + lol)) IN
         IF n <= 55 THEN Err("RlpInvalidIndirection")
         ELSE Ok([header_len |-> 1 + lol, value_len |-> n], <<>>)

\* Result::unwrap_or
UnwrapOr(d, v) == IF d.st = "ok" THEN d.val ELSE v

\* PayloadInfo::from: header and value length as the first byte announces them
PayloadInfoFrom(bytes) ==
    IF bytes[1] <= 127 THEN Ok([header_len |-> 0, value_len |-> 1], <<>>)
    ELSE IF bytes[1] <= 183 THEN Ok([header_len |-> 1, value_len |-> bytes[1] - 128], <<>>)
    ELSE IF bytes[1] <= 191 THEN PayloadInfoLong(bytes, bytes[1] - 183)
    ELSE IF bytes[1] <= 247 THEN Ok([header_len |-> 1, value_len |-> bytes[1] - 192], <<>>)
    ELSE PayloadInfoLong(bytes, bytes[1] - 247)

\* BasicDecoder::payload_info: header and value length, checked against the bytes
PayloadInfo(bytes) ==
    IF bytes = <<>> THEN Err("RlpIsTooShort")
    ELSE Bind(PayloadInfoFrom(bytes), LAMBDA i, none :
             IF i.header_len + i.value_len <= Len(bytes) THEN Ok(i, <<>>)
             ELSE Err("RlpIsTooShort"))

IsList(bytes) == bytes # <<>> /\ bytes[1] >= 192

IsData(bytes) == bytes # <<>> /\ bytes[1] < 192

IsEmpty(bytes) == bytes # <<>> /\ bytes[1] \in {192, 128}

\* Rlp::data: the payload of the item, a list's too
RlpData(bytes) ==
    Bind(PayloadInfo(bytes), LAMBDA i, none :
        Ok(SubSeq(bytes, i.header_len + 1, i.header_len + i.value_len), <<>>))

\* Rlp::size: the payload length of a data item, 0 otherwise
RlpSize(bytes) == IF IsData(bytes) THEN Len(UnwrapOr(RlpData(bytes), <<>>)) ELSE 0

\* BasicDecoder::decode_value: the payload of a string item
DecodeValue(bytes) ==
    IF bytes = <<>> THEN Err("RlpIsTooShort")
    ELSE LET l == bytes[1] IN
      IF l <= 127 THEN Ok(<<l>>, <<>>)
      ELSE IF l <= 183 THEN
        IF Len(bytes) < 1 + l - 128 THEN Err("RlpInconsistentLengthAndData")
        ELSE IF l = 129 /\ bytes[2] < 128 THEN Err("RlpInvalidIndirection")
        ELSE Ok(SubSeq(bytes, 2, 1 + l - 128), <<>>)
      ELSE IF l <= 191 THEN
        LET lol == l - 183 IN
        IF Len(bytes) < 1 + lol THEN Err("RlpInconsistentLengthAndData")
        ELSE LET n == BytesToNat(SubSeq(bytes, 2, 1 + lol)) IN
             IF Len(bytes) < 1 + lol + n THEN Err("RlpInconsistentLengthAndData")
             ELSE Ok(SubSeq(bytes, 2 + lol, 1 + lol + n), <<>>)
      ELSE Err("RlpExpectedToBeData")

\* the length of the item at the front of a list payload, 0 when it is malformed
ItemLength(payload) ==
    UnwrapOr(Bind(PayloadInfo(payload), LAMBDA i, none :
                 Ok(i.header_len + i.value_len, <<>>)), 0)

RECURSIVE SplitItems(_, _)
\* the items Rlp::iter yields from a list payload, up to the first bad one; n is
\* the length of the item at the front
SplitItems(payload, n) ==
    IF payload = <<>> \/ n = 0 THEN <<>>
    ELSE <<Take(payload, n)>>
         \o SplitItems(Drop(payload, n), ItemLength(Drop(payload, n)))

\* the payload of a list, empty when its header is malformed
ListPayload(bytes) == UnwrapOr(RlpData(bytes), <<>>)

\* the raw items of a list
Items(bytes) ==
    IF IsList(bytes) THEN SplitItems(ListPayload(bytes), ItemLength(ListPayload(bytes)))
    ELSE <<>>

\* Rlp::item_count
ItemCount(bytes) ==
    IF IsList(bytes) THEN Ok(Len(Items(bytes)), <<>>) ELSE Err("RlpExpectedToBeList")

\* the i-th item (from 0) of those a list holds
ItemAt(items, i) == IF i + 1 > Len(items) THEN Err("RlpIsTooShort") ELSE Ok(items[i + 1], <<>>)

\* Rlp::at
At(bytes, i) ==
    IF ~IsList(bytes) THEN Err("RlpExpectedToBeList") ELSE ItemAt(Items(bytes), i)

\* <U256 as Decodable>::decode (max = 32), U64 and u64 (max = 8)
RlpUintDecode(bytes, max) ==
    Bind(DecodeValue(bytes), LAMBDA v, none :
        IF v # <<>> /\ v[1] = 0 THEN Err("RlpInvalidIndirection")
        ELSE IF Len(v) > max THEN Err("RlpIsTooBig")
        ELSE Ok(v, <<>>))

\* <bool as Decodable>::decode
RlpBoolDecode(bytes) ==
    Bind(RlpUintDecode(bytes, 1), LAMBDA v, none :
        IF v = <<>> THEN Ok(FALSE, <<>>)
        ELSE IF v = <<1>> THEN Ok(TRUE, <<>>)
        ELSE Err("invalid boolean value"))

\* <H160 as Decodable>::decode (n = 20), <H256 as Decodable>::decode (n = 32)
RlpFixedDecode(bytes, n) ==
    Bind(DecodeValue(bytes), LAMBDA v, none :
        IF Len(v) < n THEN Err("RlpIsTooShort")
        ELSE IF Len(v) > n THEN Err("RlpIsTooBig")
        ELSE Ok(v, <<>>))

----------------------------------------------------------------------------
(* Signed transactions (signed.rs)                                         *)

Call(a) == [tag |-> "Call", addr |-> a]

Create == [tag |-> "Create", addr |-> <<>>]

\* <TransactionKind as Encodable>::rlp_append
TransactionKindEncode(k) ==
    IF k.tag = "Call" THEN RlpEncodeValue(k.addr) ELSE RlpEncodeValue(<<>>)

\* <AccessList as rlp::Encodable>: a list of [address, [keys]] lists
RlpAccessListEncode(al) ==
    RlpList([i \in 1..Len(al) |->
        RlpList(<< RlpEncodeValue(al[i].address),
                   RlpList([j \in 1..Len(al[i].storage_keys) |->
                                RlpEncodeValue(al[i].storage_keys[j])]) >>)])

RECURSIVE RlpH256Items(_, _)
\* Rlp::as_list::<H256> item by item: each read as a 32-byte value
RlpH256Items(items, acc) ==
    IF items = <<>> THEN Ok(acc, <<>>)
    ELSE Bind(RlpFixedDecode(Head(items), 32), LAMBDA k, none :
             RlpH256Items(Tail(items), Append(acc, k)))

\* one [address, [keys]] item read back: val_at(0), list_at(1)
RlpAccessListItemDecode(bytes) ==
    Bind(At(bytes, 0), LAMBDA i0, n0 :
    Bind(RlpFixedDecode(i0, 20), LAMBDA a, n1 :
    Bind(At(bytes, 1), LAMBDA i1, n2 :
    Bind(RlpH256Items(Items(i1), <<>>), LAMBDA keys, n3 :
        Ok([address |-> a, storage_keys |-> keys], <<>>)))))

RECURSIVE RlpAccessListItems(_, _)
\* Rlp::as_list::<AccessListItem> item by item
RlpAccessListItems(items, acc) ==
    IF items = <<>> THEN Ok(acc, <<>>)
    ELSE Bind(RlpAccessListItemDecode(Head(items)), LAMBDA it, none :
             RlpAccessListItems(Tail(items), Append(acc, it)))

\* <AccessList as rlp::Decodable>
RlpAccessListDecode(bytes) == RlpAccessListItems(Items(bytes), <<>>)

\* a decoder that also reads the all-zero address as Create
TransactionKindDecodeZeroAsCreate(bytes) ==
    IF IsEmpty(bytes)
    THEN IF IsData(bytes) THEN Ok(Create, <<>>) ELSE Err("RlpExpectedToBeData")
    ELSE Bind(RlpFixedDecode(bytes, 20), LAMBDA a, none :
             Ok(IF a = ZeroAddress THEN Create ELSE Call(a), <<>>))

\* <TransactionKind as Decodable>::decode
TransactionKindDecode(bytes) ==
    IF IsEmpty(bytes)
    THEN IF IsData(bytes) THEN Ok(Create, <<>>) ELSE Err("RlpExpectedToBeData")
    ELSE Bind(RlpFixedDecode(bytes, 20), LAMBDA a, none : Ok(Call(a), <<>>))

\* the Decodable the signed decoders pick for a field of kind k
RlpFieldDecode(k, item) ==
    IF k = "u64" THEN RlpUintDecode(item, 8)
    ELSE IF k = "u256" THEN RlpUintDecode(item, 32)
    ELSE IF k = "kind" THEN TransactionKindDecode(item)
    ELSE IF k = "bytes" THEN DecodeValue(item)
    ELSE IF k = "bool" THEN RlpBoolDecode(item)
    ELSE RlpAccessListDecode(item)

\* Rlp::val_at(i): at(i)?, then the value
ValAt(bytes, i, k) == Bind(At(bytes, i), LAMBDA item, none : RlpFieldDecode(k, item))

RECURSIVE ValsAt(_, _, _)
\* the val_at reads of a decoder in the order it makes them, each ended by ?;
\* a read is <<index, kind>>
ValsAt(bytes, reads, acc) ==
    IF reads = <<>> THEN Ok(acc, <<>>)
    ELSE Bind(ValAt(bytes, Head(reads)[1], Head(reads)[2]), LAMBDA v, none :
             ValsAt(bytes, Tail(reads), Append(acc, v)))

\* <LegacyTransaction as Encodable>::rlp_append
LegacyEncode(tx) ==
    RlpList(<< RlpEncodeValue(tx.nonce), RlpEncodeValue(tx.gas_price),
               RlpEncodeValue(tx.gas_limit), TransactionKindEncode(tx.kind),
               RlpEncodeValue(tx.value), RlpEncodeValue(tx.input),
               RlpEncodeValue(tx.signature.v), RlpEncodeValue(tx.signature.r),
               RlpEncodeValue(tx.signature.s) >>)

\* the reads of LegacyTransaction::decode: v, r, s first, then the six fields
LegacyFields ==
    << <<6, "u64">>, <<7, "u256">>, <<8, "u256">>, <<0, "u256">>, <<1, "u256">>,
       <<2, "u256">>, <<3, "kind">>, <<4, "u256">>, <<5, "bytes">> >>

\* the LegacyTransaction built from the values read
LegacyOf(f) ==
    [variant |-> "Legacy", nonce |-> f[4], gas_price |-> f[5], gas_limit |-> f[6],
     kind |-> f[7], value |-> f[8], input |-> f[9],
     signature |-> [v |-> f[1], r |-> f[2], s |-> f[3]]]

\* the nine reads alone, without the item_count guard in front of them
LegacyDecodeUnchecked(bytes) ==
    Bind(ValsAt(bytes, LegacyFields, <<>>), LAMBDA f, n0 : Ok(LegacyOf(f), <<>>))

\* <LegacyTransaction as Decodable>::decode
LegacyDecode(bytes) ==
    Bind(ItemCount(bytes), LAMBDA c, none :
        IF c # 9 THEN Err("RlpIncorrectListLen")
        ELSE Bind(ValsAt(bytes, LegacyFields, <<>>), LAMBDA f, n0 :
                 Ok(LegacyOf(f), <<>>)))

\* the subtraction made for every v, without the v > 36 test in front of it
LegacyChainIdUnguarded(tx) ==
    IF BytesToNat(tx.signature.v) < 35 THEN Panic("attempt to subtract with overflow")
    ELSE Ok(Some((BytesToNat(tx.signature.v) - 35) \div 2), <<>>)

\* LegacyTransaction::chain_id; v - 35 is a u64 subtraction, which overflows
\* below 35
LegacyChainId(tx) ==
    IF BytesToNat(tx.signature.v) > 36
    THEN IF BytesToNat(tx.signature.v) < 35
         THEN Panic("attempt to subtract with overflow")
         ELSE Ok(Some((BytesToNat(tx.signature.v) - 35) \div 2), <<>>)
    ELSE Ok(None, <<>>)

\* <bool as Encodable>::rlp_append
RlpBoolEncode(b) == IF b THEN RlpEncodeValue(<<1>>) ELSE RlpEncodeValue(<<>>)

\* <EIP2930Transaction as Encodable>::rlp_append
EIP2930Encode(tx) ==
    RlpList(<< RlpEncodeValue(tx.chain_id), RlpEncodeValue(tx.nonce),
               RlpEncodeValue(tx.gas_price), RlpEncodeValue(tx.gas_limit),
               TransactionKindEncode(tx.kind), RlpEncodeValue(tx.value),
               RlpEncodeValue(tx.input), RlpAccessListEncode(tx.access_list),
               RlpBoolEncode(tx.odd_y_parity),
               RlpEncodeValue(StripZeros(tx.r)), RlpEncodeValue(StripZeros(tx.s)) >>)

\* the reads of EIP2930Transaction::decode
EIP2930Fields ==
    << <<0, "u64">>, <<1, "u256">>, <<2, "u256">>, <<3, "u256">>, <<4, "kind">>,
       <<5, "u256">>, <<6, "bytes">>, <<7, "access_list">>, <<8, "bool">>,
       <<9, "u256">>, <<10, "u256">> >>

\* the EIP2930Transaction built from the values read
EIP2930Of(f) ==
    [variant |-> "EIP2930", chain_id |-> f[1], nonce |-> f[2], gas_price |-> f[3],
     gas_limit |-> f[4], kind |-> f[5], value |-> f[6], input |-> f[7],
     access_list |-> f[8], odd_y_parity |-> f[9],
     r |-> ToBigEndian32(f[10]), s |-> ToBigEndian32(f[11])]

\* <EIP2930Transaction as Decodable>::decode
EIP2930Decode(bytes) ==
    Bind(ItemCount(bytes), LAMBDA c, none :
        IF c # 11 THEN Err("RlpIncorrectListLen")
        ELSE Bind(ValsAt(bytes, EIP2930Fields, <<>>), LAMBDA f, n0 :
                 Ok(EIP2930Of(f), <<>>)))

\* <EIP1559Transaction as Encodable>::rlp_append
EIP1559Encode(tx) ==
    RlpList(<< RlpEncodeValue(tx.chain_id), RlpEncodeValue(tx.nonce),
               RlpEncodeValue(tx.max_priority_fee_per_gas),
               RlpEncodeValue(tx.max_fee_per_gas), RlpEncodeValue(tx.gas_limit),
               TransactionKindEncode(tx.kind), RlpEncodeValue(tx.value),
               RlpEncodeValue(tx.input), RlpAccessListEncode(tx.access_list),
               RlpBoolEncode(tx.odd_y_parity),
               RlpEncodeValue(StripZeros(tx.r)), RlpEncodeValue(StripZeros(tx.s)) >>)

\* the reads of EIP1559Transaction::decode
EIP1559Fields ==
    << <<0, "u64">>, <<1, "u256">>, <<2, "u256">>, <<3, "u256">>, <<4, "u256">>,
       <<5, "kind">>, <<6, "u256">>, <<7, "bytes">>, <<8, "access_list">>,
       <<9, "bool">>, <<10, "u256">>, <<11, "u256">> >>

\* the EIP1559Transaction built from the values read
EIP1559Of(f) ==
    [variant |-> "EIP1559", chain_id |-> f[1], nonce |-> f[2],
     max_priority_fee_per_gas |-> f[3], max_fee_per_gas |-> f[4],
     gas_limit |-> f[5], kind |-> f[6], value |-> f[7], input |-> f[8],
     access_list |-> f[9], odd_y_parity |-> f[10],
     r |-> ToBigEndian32(f[11]), s |-> ToBigEndian32(f[12])]

\* <EIP1559Transaction as Decodable>::decode
EIP1559Decode(bytes) ==
    Bind(ItemCount(bytes), LAMBDA c, none :
        IF c # 12 THEN Err("RlpIncorrectListLen")
        ELSE Bind(ValsAt(bytes, EIP1559Fields, <<>>), LAMBDA f, n0 :
                 Ok(EIP1559Of(f), <<>>)))

\* the id byte and the encoded v written bare, without out.rlp_append(s)
EnvelopedBare(id, encoded) == <<id>> \o encoded

\* enveloped(id, v, s): the id byte and the encoded v, appended to the stream
\* as one byte string
enveloped(id, encoded) == RlpEncodeValue(<<id>> \o encoded)

\* <TypedTransaction as Encodable>::rlp_append
TypedEncode(tx) ==
    IF tx.variant = "Legacy" THEN LegacyEncode(tx)
    ELSE IF tx.variant = "EIP2930" THEN enveloped(1, EIP2930Encode(tx))
    ELSE enveloped(2, EIP1559Encode(tx))

\* a decoder that takes the type from the first byte of the stream instead of
\* the first byte of rlp.data()
TypedDecodeLeadingByte(bytes) ==
    Bind(RlpData(bytes), LAMBDA payload, none :
        IF payload = <<>> THEN Err("empty slice")
        ELSE IF IsList(bytes) THEN LegacyDecode(bytes)
        ELSE IF bytes[1] = 1 THEN EIP2930Decode(Tail(bytes))
        ELSE IF bytes[1] = 2 THEN EIP1559Decode(Tail(bytes))
        ELSE Err("invalid tx type"))

\* <TypedTransaction as Decodable>::decode
TypedDecode(bytes) ==
    Bind(RlpData(bytes), LAMBDA payload, none :
        IF payload = <<>> THEN Err("empty slice")
        ELSE IF IsList(bytes) THEN LegacyDecode(bytes)
        ELSE IF payload[1] = 1 THEN EIP2930Decode(Tail(payload))
        ELSE IF payload[1] = 2 THEN EIP1559Decode(Tail(payload))
        ELSE Err("invalid tx type"))

\* keccak256: a digest that stands for the bytes hashed and for nothing else,
\* so that two digests are equal exactly when their preimages are
keccak256(bytes) == [keccak256 |-> bytes]

\* LegacyTransaction::hash
LegacyHash(tx) == keccak256(LegacyEncode(tx))

\* EIP2930Transaction::hash: out[0] = 1, out[1..] the encoded transaction
EIP2930Hash(tx) == keccak256(<<1>> \o EIP2930Encode(tx))

\* EIP1559Transaction::hash: out[0] = 2, out[1..] the encoded transaction
EIP1559Hash(tx) == keccak256(<<2>> \o EIP1559Encode(tx))

\* the digest of the bytes rlp::encode writes for the TypedTransaction
HashOfEncoded(tx) == keccak256(TypedEncode(tx))

\* a digest that also takes in whether a codec operation was applied before
HashOfCallHistory(tx) ==
    keccak256(<<IF op = "init" THEN 0 ELSE 1>> \o TypedEncode(tx))

\* TypedTransaction::hash
TypedHash(tx) ==
    IF tx.variant = "Legacy" THEN LegacyHash(tx)
    ELSE IF tx.variant = "EIP2930" THEN EIP2930Hash(tx)
    ELSE EIP1559Hash(tx)

\* the 65 bytes recover() fills: sig[0..32] = r, sig[32..64] = s,
\* sig[64] = odd_y_parity as u8
CompactSignature(tx) == tx.r \o tx.s \o <<IF tx.odd_y_parity THEN 1 ELSE 0>>

\* Signature::try_from(&[u8]): 65 bytes are r, s and v, any other length fails
SignatureTryFrom(bytes) ==
    IF Len(bytes) # 65 THEN Err("InvalidSignatureLength")
    ELSE Ok([r |-> SubSeq(bytes, 1, 32), s |-> SubSeq(bytes, 33, 64), v |-> bytes[65]],
            <<>>)

\* the hash of the unsigned request built from a typed transaction: the type
\* byte, then the list of its fields without the final three
SigHash(tx) ==
    IF tx.variant = "EIP2930"
    THEN keccak256(<<1>> \o RlpList(SubSeq(Items(EIP2930Encode(tx)), 1, 8)))
    ELSE keccak256(<<2>> \o RlpList(SubSeq(Items(EIP1559Encode(tx)), 1, 9)))

\* recovery asked over hash() of the signed transaction instead
RecoverOverHash(tx, recovers) ==
    Bind(SignatureTryFrom(CompactSignature(tx)), LAMBDA signature, none :
        IF ~recovers THEN Err("RecoveryFailed")
        ELSE Ok([address |-> AddrA, signature |-> signature, recovery_id |-> signature.v,
                 hash |-> TypedHash(tx)], <<>>))

\* EIP2930Transaction::recover and EIP1559Transaction::recover: the signature
\* and the hash handed to the curve recovery are kept beside the address it
\* returns; whether it recovers is not a matter of the encoding
Recover(tx, recovers) ==
    Bind(SignatureTryFrom(CompactSignature(tx)), LAMBDA signature, none :
        IF ~recovers THEN Err("RecoveryFailed")
        ELSE Ok([address |-> AddrA, signature |-> signature, recovery_id |-> signature.v,
                 hash |-> SigHash(tx)], <<>>))

----------------------------------------------------------------------------
(* serde of NameOrAddress (ens.rs)                                         *)

\* <Address as Serialize>::serialize: the string "0x" and two hex digits, here
\* their values, for each of the 20 bytes
AddressSerialize(a) ==
    Ok([prefix |-> "0x",
        digits |-> Flatten([i \in 1..Len(a) |-> <<a[i] \div 16, a[i] % 16>>])], <<>>)

\* a serializer that falls back to the name itself for a name
SerializeNameAsString(x) ==
    IF x.tag = "Address" THEN AddressSerialize(x.val)
    ELSE Ok([prefix |-> "", digits |-> x.val], <<>>)

\* <NameOrAddress as Serialize>::serialize
NameOrAddressSerialize(x) ==
    IF x.tag = "Address" THEN AddressSerialize(x.val)
    ELSE Err("cannot serialize ENS name, must be address")

----------------------------------------------------------------------------
(* The rlp codec of NameOrAddress (ens.rs) and of the request (eip1559.rs) *)

\* an encoder that appends the name as a string where rlp_append appends nothing
RlpNameOrAddressEncodeName(x) == RlpEncodeValue(x.val)

\* <NameOrAddress as rlp::Encodable>::rlp_append: the inner address, or nothing
RlpNameOrAddressEncode(x) ==
    IF x.tag = "Address" THEN RlpEncodeValue(x.val) ELSE <<>>

\* <NameOrAddress as rlp::Decodable>::decode
RlpNameOrAddressDecode(bytes) ==
    IF ~IsData(bytes) THEN Err("RlpExpectedToBeData")
    ELSE IF 20 < RlpSize(bytes) THEN Err("RlpIsTooShort")
    ELSE IF 20 > RlpSize(bytes) THEN Err("RlpIsTooBig")
    ELSE Bind(RlpData(bytes), LAMBDA a, none : Ok(Address(a), <<>>))

\* rlp_opt on an Option of bytes: the value, or the empty string for None
RlpOpt(o) == IF o = None THEN RlpEncodeValue(<<>>) ELSE RlpEncodeValue(o[1])

\* rlp_opt(rlp, &self.to.as_ref())
RlpOptTo(o) == IF o = None THEN RlpEncodeValue(<<>>) ELSE RlpNameOrAddressEncode(o[1])

\* Eip1559TransactionRequest::rlp_base: the nine appends, in order
RlpBase(r) ==
    << RlpOpt(r.chain_id), RlpOpt(r.nonce), RlpOpt(r.max_priority_fee_per_gas),
       RlpOpt(r.max_fee_per_gas), RlpOpt(r.gas), RlpOptTo(r.to), RlpOpt(r.value),
       RlpOpt(r.data), RlpAccessListEncode(r.access_list) >>

\* Eip1559TransactionRequest::rlp
Eip1559Rlp(r) == RlpList(RlpBase(r))

\* decode_to: an empty string is None, anything else a NameOrAddress
DecodeTo(bytes) ==
    IF IsEmpty(bytes)
    THEN IF IsData(bytes) THEN Ok(None, <<>>) ELSE Err("RlpExpectedToBeData")
    ELSE Bind(RlpNameOrAddressDecode(bytes), LAMBDA a, none : Ok(Some(a), <<>>))

\* the call-data step of decode_base_rlp: the item's payload, None when empty
DecodeData(bytes) ==
    Bind(RlpData(bytes), LAMBDA d, none : Ok(IF d = <<>> THEN None ELSE Some(d), <<>>))

\* the read decode_base_rlp makes for a field of kind k
BaseFieldDecode(k, item) ==
    IF k = "u64" THEN RlpUintDecode(item, 8)
    ELSE IF k = "u256" THEN RlpUintDecode(item, 32)
    ELSE IF k = "to" THEN DecodeTo(item)
    ELSE IF k = "data" THEN DecodeData(item)
    ELSE RlpAccessListDecode(item)

RECURSIVE DecodeBaseReads(_, _, _)
\* the reads of decode_base_rlp from the given offset, each ended by ? and the
\* offset advancing by one after each
DecodeBaseReads(bytes, offset, acc) ==
    IF offset = Len(Eip1559FieldKinds) THEN Ok(acc, <<>>)
    ELSE Bind(At(bytes, offset), LAMBDA item, n0 :
         Bind(BaseFieldDecode(Eip1559FieldKinds[offset + 1], item), LAMBDA v, n1 :
             DecodeBaseReads(bytes, offset + 1, Append(acc, v))))

\* Eip1559TransactionRequest::decode_base_rlp from offset 0
DecodeBaseRlp(bytes) ==
    Bind(DecodeBaseReads(bytes, 0, <<>>), LAMBDA f, none : Ok(DecodedRequest(f), <<>>))

\* TypedTransaction::Eip1559(txn).sighash(): the hash of the type byte and
\* rlp() of the request
RequestSigHash(r) == keccak256(<<2>> \o Eip1559Rlp(r))

\* the offset left where decode_base_rlp read its last field: v, r, s are
\* read one item early
DecodeSignedRlpOffsetStuck(bytes, recovers) ==
    Bind(DecodeBaseReads(bytes, 0, <<>>), LAMBDA f, n0 :
    Bind(ValsAt(bytes, << <<8, "u64">>, <<9, "u256">>, <<10, "u256">> >>, <<>>),
         LAMBDA sig, n1 :
        IF ~recovers THEN Err("RecoveryError")
        ELSE Ok([txn |-> [DecodedRequest(f) EXCEPT !.from = Some(AddrA)],
                 sig |-> [v |-> sig[1], r |-> sig[2], s |-> sig[3]],
                 over |-> RequestSigHash(DecodedRequest(f))], <<>>)))

\* Eip1559TransactionRequest::decode_signed_rlp: the base fields from offset
\* 0, then v, r, s at the three offsets that follow, then the signer recovered
\* into from; the hash handed to the recovery is kept beside the pair
\* returned, and whether the signature recovers is not a matter of the encoding
DecodeSignedRlp(bytes, recovers) ==
    Bind(DecodeBaseReads(bytes, 0, <<>>), LAMBDA f, n0 :
    Bind(ValsAt(bytes, << <<9, "u64">>, <<10, "u256">>, <<11, "u256">> >>, <<>>),
         LAMBDA sig, n1 :
        IF ~recovers THEN Err("RecoveryError")
        ELSE Ok([txn |-> [DecodedRequest(f) EXCEPT !.from = Some(AddrA)],
                 sig |-> [v |-> sig[1], r |-> sig[2], s |-> sig[3]],
                 over |-> RequestSigHash(DecodedRequest(f))], <<>>)))

----------------------------------------------------------------------------
(* Log (log.rs): the address, topics and data are what the codecs carry    *)

\* <Log as rlp::Encodable>::rlp_append
LogRlpEncode(l) ==
    RlpList(<< RlpEncodeValue(l.address),
               RlpList([i \in 1..Len(l.topics) |-> RlpEncodeValue(l.topics[i])]),
               RlpEncodeValue(l.data) >>)

\* Log::log_payload_length
LogPayloadLength(l) ==
    (IF l.address = ZeroAddress THEN 1 ELSE BytesLength(l.address))
    + Len(VecH256Encode(l.topics))
    + BytesLength(l.data)

\* <Log as fastrlp::Encodable>::encode
LogEncode(l) ==
    HeaderEncode(TRUE, LogPayloadLength(l))
    \o (IF l.address = ZeroAddress THEN <<128>> ELSE BytesEncode(l.address))
    \o VecH256Encode(l.topics)
    \o BytesEncode(l.data)

\* the address step of Log::decode
LogAddressDecode(buf) ==
    IF buf = <<>> THEN Err("Cannot decode an address from an empty list")
    ELSE IF buf[1] = 128 THEN Ok(ZeroAddress, Tail(buf))
    ELSE FixedDecode(buf, 20)

\* <Log as fastrlp::Decodable>::decode
LogDecode(buf) ==
    IF buf = <<>> THEN Err("Cannot decode a log from empty bytes")
    ELSE Bind(HeaderDecode(buf), LAMBDA h, body :
         Bind(LogAddressDecode(body), LAMBDA a, r1 :
         Bind(VecH256Decode(r1), LAMBDA t, r2 :
         Bind(BytesDecode(r2), LAMBDA d, r3 :
             Ok([address |-> a, topics |-> t, data |-> d], r3)))))

----------------------------------------------------------------------------
(* Address-book Contract (ethers-addressbook/src/lib.rs).  A Contract is   *)
(* held as the sequence of (chain, address) pairs its HashMap yields when  *)
(* iterated: the order is the map's own, no two pairs share a chain.       *)

RECURSIVE ContractHash(_, _)
\* <Contract as Hash>::hash: chain.hash(state) and addr.hash(state) for each
\* pair in the order the map yields them; state is what the hasher was fed
ContractHash(addresses, state) ==
    IF addresses = <<>> THEN state
    ELSE ContractHash(Tail(addresses),
                      state \o <<Head(addresses).chain, Head(addresses).addr>>)

\* DefaultHasher::finish: a value that stands for the sequence fed, so that
\* two values are equal exactly when the sequences are
Finish(state) == [finish |-> state]

\* <Contract as PartialEq>::eq: the two hashes, each from a new hasher
ContractEq(self, other) ==
    Finish(ContractHash(self, <<>>)) = Finish(ContractHash(other, <<>>))

----------------------------------------------------------------------------
(* Inputs                                                                  *)

\* 0, 0x7f, 0x80, 0xffff and 2^255 (bit length 256)
UintVals == { <<>>, <<127>>, <<128>>, <<255, 255>>, <<128>> \o Rep(0, 31) }

OptUint == {None} \cup {Some(v) : v \in UintVals}

OptTo == {None, Some(Address(ZeroAddress)), Some(Address(AddrA)), Some(Name)}

OptData == {None} \cup {Some(Rep(171, n)) : n \in 0..MaxDataLen}

OptChain == {None, Some(<<1>>), Some(<<5, 57>>)}

AccessLists ==
    {<<>>} \cup
    { << [address |-> a, storage_keys |-> [i \in 1..k |-> Rep(34, 32)]] >> :
        a \in {ZeroAddress, AddrA}, k \in 0..MaxKeys }

\* absent, zero, or 0x80
FewUint == {None, Some(<<>>), Some(<<128>>)}

\* requests whose integer fields vary independently, the rest as new() leaves it
IntegerRequests ==
    { [NewRequest EXCEPT !.nonce = n, !.max_priority_fee_per_gas = p,
                         !.max_fee_per_gas = f, !.gas = g, !.value = v] :
        n \in OptUint, p \in OptUint, f \in FewUint, g \in FewUint, v \in FewUint }

\* requests whose recipient, data, access list and chain id vary, the integer
\* fields all absent or all set to one value
ShapeRequests ==
    { [from |-> None, to |-> t, gas |-> u, value |-> u, data |-> d, nonce |-> u,
       access_list |-> a, max_priority_fee_per_gas |-> u, max_fee_per_gas |-> u,
       chain_id |-> c] :
        t \in OptTo, u \in OptUint, d \in OptData, a \in AccessLists, c \in OptChain }

Requests == IntegerRequests \cup ShapeRequests

Kinds == {Create, Call(ZeroAddress), Call(AddrA)}

Inputs == {Rep(171, n) : n \in 0..MaxDataLen}

SampleLegacy ==
    [variant |-> "Legacy", nonce |-> <<2>>, gas_price |-> <<2>>, gas_limit |-> <<82, 8>>,
     kind |-> Call(AddrA), value |-> <<1, 0>>, input |-> <<>>,
     signature |-> [v |-> <<37>>, r |-> <<9>>, s |-> <<5>>]]

LegacyTxs ==
    { [variant |-> "Legacy", nonce |-> n, gas_price |-> <<2>>, gas_limit |-> <<82, 8>>,
       kind |-> k, value |-> v, input |-> i,
       signature |-> [v |-> sv, r |-> r, s |-> <<5>>]] :
        n \in {<<>>, <<128>>}, k \in Kinds, v \in {<<>>, <<1, 0>>}, i \in Inputs,
        sv \in {<<27>>, <<37>>}, r \in {<<>>, <<9>>} }

EIP2930Txs ==
    { [variant |-> "EIP2930", chain_id |-> <<1>>, nonce |-> n, gas_price |-> <<2>>,
       gas_limit |-> <<82, 8>>, kind |-> k, value |-> <<1, 0>>, input |-> i,
       access_list |-> a, odd_y_parity |-> y, r |-> ToBigEndian32(r),
       s |-> ToBigEndian32(<<5>>)] :
        n \in {<<>>, <<128>>}, k \in Kinds, i \in Inputs, a \in AccessLists,
        y \in BOOLEAN, r \in {<<>>, <<9>>} }

EIP1559Txs ==
    { [variant |-> "EIP1559", chain_id |-> <<1>>, nonce |-> n,
       max_priority_fee_per_gas |-> <<2>>, max_fee_per_gas |-> <<3>>,
       gas_limit |-> <<82, 8>>, kind |-> k, value |-> <<1, 0>>, input |-> i,
       access_list |-> a, odd_y_parity |-> y, r |-> ToBigEndian32(r),
       s |-> ToBigEndian32(<<5>>)] :
        n \in {<<>>, <<128>>}, k \in Kinds, i \in Inputs, a \in AccessLists,
        y \in BOOLEAN, r \in {<<>>, <<9>>} }

\* the sample legacy transaction under every v up to MaxV
LegacyVs == { [SampleLegacy EXCEPT !.signature.v = BE(n)] : n \in 0..MaxV }

Logs ==
    { [address |-> a, topics |-> [i \in 1..t |-> Rep(51, 32)], data |-> d] :
        a \in {ZeroAddress, AddrA}, t \in 0..MaxTopics, d \in Inputs }

\* recipients handed to the recipient encoders
Recipients ==
    { Address(ZeroAddress), Address(AddrA), Address(Rep(255, 20)),
      Address(<<0>> \o Rep(1, 19)), Name }

\* the payload lengths of the items handed to the recipient decoder
PayloadLens == {0, 1, 19, 20, 21, 33, 60}

\* items handed to the rlp recipient decoder: strings of those payload
\* lengths, a byte that is its own item, and lists, one of payload length 20
RecipientItems ==
    { RlpEncodeValue(Rep(b, n)) : b \in {0, 200}, n \in PayloadLens }
    \cup { <<5>>, <<192>>, RlpList(<<RlpEncodeValue(Rep(1, 19))>>), RlpList(<<>>) }

\* the arguments handed to the builders
BuilderUints == {<<1>>, <<2, 0>>}

BuilderAddresses == {ZeroAddress, AddrA}

BuilderRecipients == {Address(AddrA), Name}

BuilderData == {<<>>, <<85, 68>>}

BuilderAccessLists == {<<>>, <<[address |-> AddrA, storage_keys |-> <<>>]>>}

\* a fee-market body as a decoder expects it: a list header that counts the
\* payload, then the nine fields
WellFormedBody(fields) == HeaderEncode(TRUE, Len(Flatten(fields))) \o Flatten(fields)

SampleRequest ==
    [NewRequest EXCEPT !.chain_id = Some(<<5, 57>>), !.nonce = Some(<<2>>),
                       !.max_priority_fee_per_gas = Some(<<119, 53>>),
                       !.max_fee_per_gas = Some(<<119, 53>>),
                       !.gas = Some(<<1, 134, 160>>), !.to = Some(Address(AddrA)),
                       !.value = Some(<<90, 243>>), !.data = Some(<<85, 68>>)]

SampleEIP2930 ==
    [variant |-> "EIP2930", chain_id |-> <<1>>, nonce |-> <<2>>, gas_price |-> <<2>>,
     gas_limit |-> <<82, 8>>, kind |-> Create, value |-> <<1, 0>>, input |-> <<>>,
     access_list |-> <<>>, odd_y_parity |-> TRUE, r |-> ToBigEndian32(<<9>>),
     s |-> ToBigEndian32(<<5>>)]

SampleEIP1559 ==
    [variant |-> "EIP1559", chain_id |-> <<1>>, nonce |-> <<2>>,
     max_priority_fee_per_gas |-> <<2>>, max_fee_per_gas |-> <<3>>,
     gas_limit |-> <<82, 8>>, kind |-> Create, value |-> <<1, 0>>, input |-> <<>>,
     access_list |-> <<>>, odd_y_parity |-> FALSE, r |-> ToBigEndian32(<<9>>),
     s |-> ToBigEndian32(<<5>>)]

\* the samples with an input of one byte below 0x80, and of 60 bytes
LongInputTxs ==
    { [t EXCEPT !.input = i] :
        t \in {SampleLegacy, SampleEIP2930, SampleEIP1559},
        i \in {<<0>>, <<127>>, Rep(7, 60)} }

Txs == LegacyTxs \cup EIP2930Txs \cup EIP1559Txs \cup LegacyVs \cup LongInputTxs

\* complete byte streams: bodies, logs and transactions as the encoders write
\* them, typed transactions framed as a bare type byte followed by the inner
\* list, and bodies with an oversized integer or a long list header
WireSeeds ==
    { WellFormedBody(Eip1559Fields(SampleRequest)),
      WellFormedBody(Eip1559Fields(NewRequest)),
      WellFormedBody(Eip1559Fields(
          [SampleRequest EXCEPT !.access_list =
              << [address |-> AddrA, storage_keys |-> <<Rep(34, 32)>>] >>])),
      WellFormedBody([Eip1559Fields(SampleRequest) EXCEPT ![2] = BytesEncode(Rep(1, 33))]),
      WellFormedBody([Eip1559Fields(SampleRequest) EXCEPT ![1] = BytesEncode(Rep(1, 9))]),
      Eip1559Rlp(SampleRequest),
      LogEncode([address |-> AddrA, topics |-> <<Rep(51, 32)>>, data |-> <<1, 2>>]),
      LogEncode([address |-> ZeroAddress, topics |-> <<>>, data |-> <<>>]),
      TypedEncode(SampleLegacy),
      TypedEncode(SampleEIP2930),
      TypedEncode(SampleEIP1559),
      <<1>> \o EIP2930Encode(SampleEIP2930),
      <<2>> \o EIP1559Encode(SampleEIP1559),
      <<3>> \o EIP1559Encode(SampleEIP1559),
      enveloped(3, EIP1559Encode(SampleEIP1559)),
      enveloped(1, EIP1559Encode(SampleEIP1559)) }

\* every seed, every truncation of a seed, and every seed whose first byte
\* announces one byte more than follows
Wires ==
    { Take(s, n) : s \in WireSeeds, n \in 0..120 }
    \cup { <<s[1] + 1>> \o Tail(s) : s \in {w \in WireSeeds : w[1] < 255} }

\* items no field decoder accepts where an integer or a recipient is read: an
\* empty list, and a string of 33 bytes
BadItems == { <<192>>, RlpEncodeValue(Rep(1, 33)) }

\* the items the signed body encoders write for the samples
SampleItems ==
    { Items(LegacyEncode(SampleLegacy)), Items(EIP2930Encode(SampleEIP2930)),
      Items(EIP1559Encode(SampleEIP1559)) }

\* s with its p-th item replaced by b, s itself when p is 0
WithItem(s, p, b) == IF p = 0 \/ p > Len(s) THEN s ELSE [s EXCEPT ![p] = b]

\* the items of a list handed to a signed body decoder: the fields an encoder
\* wrote, cut short or followed by empty strings, one of them possibly bad
ItemLists ==
    { WithItem(Take(base \o Rep(<<128>>, MaxExtraItems), n), p, b) :
        base \in SampleItems, n \in 0..(12 + MaxExtraItems),
        p \in 0..(12 + MaxExtraItems), b \in BadItems }

\* Mainnet, Goerli, Polygon
Chains == {1, 5, 137}

\* the iteration orders of the maps of at most MaxPairs pairs
ContractOrders ==
    { q \in UNION { [1..n -> [chain : Chains, addr : {ZeroAddress, AddrA}]] :
                       n \in 0..MaxPairs } :
        \A i, j \in 1..Len(q) : i # j => q[i].chain # q[j].chain }

----------------------------------------------------------------------------
(* Specification: an input is drawn, then one codec operation is applied   *)
(* to it, and a decoder may be applied to what an encoder wrote.           *)

Init ==
    /\ op = "init"
    /\ stdout = <<>>
    /\ out = Ok(<<>>, <<>>)
    /\ \/ \E r \in Requests : inp = [kind |-> "request", val |-> r]
       \/ \E t \in Txs : inp = [kind |-> "tx", val |-> t]
       \/ \E w \in Wires : inp = [kind |-> "wire", val |-> w]
       \/ \E l \in Logs : inp = [kind |-> "log", val |-> l]
       \/ \E k \in Kinds : inp = [kind |-> "txkind", val |-> k]
       \/ \E x \in Recipients : inp = [kind |-> "recipient", val |-> x]
       \/ \E l \in ItemLists : inp = [kind |-> "items", val |-> l]
       \/ \E b \in RecipientItems : inp = [kind |-> "recipient_item", val |-> b]
       \/ inp = [kind |-> "builder", val |-> <<>>]
       \/ \E a, b \in ContractOrders :
              inp = [kind |-> "contracts", val |-> [self |-> a, other |-> b]]

\* <Eip1559TransactionRequest as fastrlp::Encodable>::encode on a request
FastrlpEncode ==
    /\ op = "init" /\ inp.kind = "request"
    /\ op' = "fastrlp_encode"
    /\ out' = Eip1559Encode(inp.val)
    /\ UNCHANGED <<inp, stdout>>

\* <Eip1559TransactionRequest as fastrlp::Decodable>::decode on what encode() wrote
FastrlpDecodeEncoded ==
    /\ op = "fastrlp_encode" /\ out.st = "ok"
    /\ op' = "fastrlp_roundtrip"
    /\ out' = Eip1559Decode(out.val)
    /\ stdout' = stdout \o Eip1559DecodePrinted(out.val)
    /\ UNCHANGED inp

\* Eip1559TransactionRequest::rlp on a request
RlpEncode ==
    /\ op = "init" /\ inp.kind = "request"
    /\ op' = "rlp_encode"
    /\ out' = Ok(Eip1559Rlp(inp.val), <<>>)
    /\ UNCHANGED <<inp, stdout>>

\* Eip1559TransactionRequest::decode_base_rlp on what rlp() wrote
RlpDecodeEncoded ==
    /\ op = "rlp_encode" /\ out.st = "ok"
    /\ op' = "rlp_roundtrip"
    /\ out' = DecodeBaseRlp(out.val)
    /\ UNCHANGED <<inp, stdout>>

\* the fastrlp request decoder on a byte stream
FastrlpDecodeWire ==
    /\ op = "init" /\ inp.kind = "wire"
    /\ op' = "fastrlp_decode_wire"
    /\ out' = Eip1559Decode(inp.val)
    /\ stdout' = stdout \o Eip1559DecodePrinted(inp.val)
    /\ UNCHANGED inp

\* the Log decoder on a byte stream
LogDecodeWire ==
    /\ op = "init" /\ inp.kind = "wire"
    /\ op' = "log_decode_wire"
    /\ out' = LogDecode(inp.val)
    /\ UNCHANGED <<inp, stdout>>

\* the TypedTransaction decoder on a byte stream
TypedDecodeWire ==
    /\ op = "init" /\ inp.kind = "wire"
    /\ op' = "typed_decode_wire"
    /\ out' = TypedDecode(inp.val)
    /\ UNCHANGED <<inp, stdout>>

\* rlp::encode of a TypedTransaction
TypedEncodeTx ==
    /\ op = "init" /\ inp.kind = "tx"
    /\ op' = "typed_encode"
    /\ out' = Ok(TypedEncode(inp.val), <<>>)
    /\ UNCHANGED <<inp, stdout>>

\* the TypedTransaction decoder on what the encoder wrote
TypedDecodeEncoded ==
    /\ op = "typed_encode" /\ out.st = "ok"
    /\ op' = "typed_roundtrip"
    /\ out' = TypedDecode(out.val)
    /\ UNCHANGED <<inp, stdout>>

\* the fastrlp Log encoder on a log
LogEncodeLog ==
    /\ op = "init" /\ inp.kind = "log"
    /\ op' = "log_encode"
    /\ out' = Ok(LogEncode(inp.val), <<>>)
    /\ UNCHANGED <<inp, stdout>>

\* the Log decoder on what the fastrlp Log encoder wrote
LogDecodeEncoded ==
    /\ op = "log_encode" /\ out.st = "ok"
    /\ op' = "log_roundtrip"
    /\ out' = LogDecode(out.val)
    /\ UNCHANGED <<inp, stdout>>

\* the rlp Log encoder on a log
LogRlpEncodeLog ==
    /\ op = "init" /\ inp.kind = "log"
    /\ op' = "log_rlp_encode"
    /\ out' = Ok(LogRlpEncode(inp.val), <<>>)
    /\ UNCHANGED <<inp, stdout>>

\* the TransactionKind encoder on a kind
KindEncode ==
    /\ op = "init" /\ inp.kind = "txkind"
    /\ op' = "kind_encode"
    /\ out' = Ok(TransactionKindEncode(inp.val), <<>>)
    /\ UNCHANGED <<inp, stdout>>

\* the TransactionKind decoder on what the encoder wrote
KindDecodeEncoded ==
    /\ op = "kind_encode" /\ out.st = "ok"
    /\ op' = "kind_roundtrip"
    /\ out' = TransactionKindDecode(out.val)
    /\ UNCHANGED <<inp, stdout>>

\* the rlp NameOrAddress encoder on a recipient
RecipientRlpEncode ==
    /\ op = "init" /\ inp.kind = "recipient"
    /\ op' = "recipient_rlp_encode"
    /\ out' = Ok(RlpNameOrAddressEncode(inp.val), <<>>)
    /\ UNCHANGED <<inp, stdout>>

\* the fastrlp NameOrAddress encoder on a recipient
RecipientFastrlpEncode ==
    /\ op = "init" /\ inp.kind = "recipient"
    /\ op' = "recipient_fastrlp_encode"
    /\ out' = Ok(NameOrAddressEncode(inp.val), <<>>)
    /\ UNCHANGED <<inp, stdout>>

\* <LegacyTransaction as Decodable>::decode on the list of the items drawn
LegacyDecodeItems ==
    /\ op = "init" /\ inp.kind = "items"
    /\ op' = "legacy_decode_items"
    /\ out' = LegacyDecode(RlpList(inp.val))
    /\ UNCHANGED <<inp, stdout>>

\* <EIP2930Transaction as Decodable>::decode on the list of the items drawn
EIP2930DecodeItems ==
    /\ op = "init" /\ inp.kind = "items"
    /\ op' = "eip2930_decode_items"
    /\ out' = EIP2930Decode(RlpList(inp.val))
    /\ UNCHANGED <<inp, stdout>>

\* <EIP1559Transaction as Decodable>::decode on the list of the items drawn
EIP1559DecodeItems ==
    /\ op = "init" /\ inp.kind = "items"
    /\ op' = "eip1559_decode_items"
    /\ out' = EIP1559Decode(RlpList(inp.val))
    /\ UNCHANGED <<inp, stdout>>

\* Eip1559TransactionRequest::decode_signed_rlp on the list of the items drawn
DecodeSignedItems ==
    /\ op = "init" /\ inp.kind = "items"
    /\ op' = "decode_signed_items"
    /\ \E recovers \in BOOLEAN : out' = DecodeSignedRlp(RlpList(inp.val), recovers)
    /\ UNCHANGED <<inp, stdout>>

\* LegacyTransaction::chain_id on a legacy transaction
LegacyChainIdOf ==
    /\ op = "init" /\ inp.kind = "tx" /\ inp.val.variant = "Legacy"
    /\ op' = "chain_id"
    /\ out' = LegacyChainId(inp.val)
    /\ UNCHANGED <<inp, stdout>>

\* TypedTransaction::hash on a transaction
HashTx ==
    /\ op = "init" /\ inp.kind = "tx"
    /\ op' = "hash"
    /\ out' = Ok(TypedHash(inp.val), <<>>)
    /\ UNCHANGED <<inp, stdout>>

\* recover() on an Access-list or Fee-market transaction
RecoverTx ==
    /\ op = "init" /\ inp.kind = "tx" /\ inp.val.variant # "Legacy"
    /\ op' = "recover"
    /\ \E recovers \in BOOLEAN : out' = Recover(inp.val, recovers)
    /\ UNCHANGED <<inp, stdout>>

\* <NameOrAddress as Serialize>::serialize on a recipient
RecipientSerialize ==
    /\ op = "init" /\ inp.kind = "recipient"
    /\ op' = "recipient_serialize"
    /\ out' = NameOrAddressSerialize(inp.val)
    /\ UNCHANGED <<inp, stdout>>

\* <NameOrAddress as rlp::Decodable>::decode on what the rlp encoder wrote
RecipientRlpDecodeEncoded ==
    /\ op = "recipient_rlp_encode" /\ out.st = "ok"
    /\ op' = "recipient_rlp_roundtrip"
    /\ out' = RlpNameOrAddressDecode(out.val)
    /\ UNCHANGED <<inp, stdout>>

\* <NameOrAddress as rlp::Decodable>::decode on an item
RecipientRlpDecodeItem ==
    /\ op = "init" /\ inp.kind = "recipient_item"
    /\ op' = "recipient_rlp_decode"
    /\ out' = RlpNameOrAddressDecode(inp.val)
    /\ UNCHANGED <<inp, stdout>>

\* <NameOrAddress as fastrlp::Decodable>::decode on what the fastrlp encoder wrote
RecipientFastrlpDecodeEncoded ==
    /\ op = "recipient_fastrlp_encode" /\ out.st = "ok"
    /\ op' = "recipient_fastrlp_roundtrip"
    /\ out' = NameOrAddressDecode(out.val)
    /\ UNCHANGED <<inp, stdout>>

\* <Contract as PartialEq>::eq on two Contracts
ContractEqOf ==
    /\ op = "init" /\ inp.kind = "contracts"
    /\ op' = "contract_eq"
    /\ out' = Ok(ContractEq(inp.val.self, inp.val.other), <<>>)
    /\ UNCHANGED <<inp, stdout>>

\* <Contract as Hash>::hash of the first Contract into a new DefaultHasher
ContractHashOf ==
    /\ op = "init" /\ inp.kind = "contracts"
    /\ op' = "contract_hash"
    /\ out' = Ok(Finish(ContractHash(inp.val.self, <<>>)), <<>>)
    /\ UNCHANGED <<inp, stdout>>

\* TypedTransaction::hash once more on the transaction already hashed
HashAgain ==
    /\ op = "hash"
    /\ op' = "hash_again"
    /\ out' = Ok(TypedHash(inp.val), <<>>)
    /\ UNCHANGED <<inp, stdout>>

\* Eip1559TransactionRequest::new(); inp.val is the list of the builder calls
\* made on the request since, each as <<builder, argument>>
New ==
    /\ op = "init" /\ inp.kind = "builder"
    /\ op' = "new"
    /\ out' = Ok(NewRequest, <<>>)
    /\ UNCHANGED <<inp, stdout>>

\* a builder call can be chained on new() or on another builder's return
Chained == inp.kind = "builder" /\ op \in {"new", "build"} /\ Len(inp.val) < MaxCalls

\* the call is added to the list of calls made
Called(name, arg) ==
    /\ op' = "build"
    /\ inp' = [inp EXCEPT !.val = Append(@, <<name, arg>>)]
    /\ UNCHANGED stdout

BuildFrom ==
    /\ Chained
    /\ \E a \in BuilderAddresses :
          out' = Ok(from(out.val, a), <<>>) /\ Called("from", a)

BuildTo ==
    /\ Chained
    /\ \E x \in BuilderRecipients :
          out' = Ok(to(out.val, x), <<>>) /\ Called("to", x)

BuildGas ==
    /\ Chained
    /\ \E v \in BuilderUints :
          out' = Ok(gas(out.val, v), <<>>) /\ Called("gas", v)

BuildMaxPriorityFeePerGas ==
    /\ Chained
    /\ \E v \in BuilderUints :
          /\ out' = Ok(max_priority_fee_per_gas(out.val, v), <<>>)
          /\ Called("max_priority_fee_per_gas", v)

BuildMaxFeePerGas ==
    /\ Chained
    /\ \E v \in BuilderUints :
          out' = Ok(max_fee_per_gas(out.val, v), <<>>) /\ Called("max_fee_per_gas", v)

BuildValue ==
    /\ Chained
    /\ \E v \in BuilderUints :
          out' = Ok(value(out.val, v), <<>>) /\ Called("value", v)

BuildData ==
    /\ Chained
    /\ \E b \in BuilderData :
          out' = Ok(data(out.val, b), <<>>) /\ Called("data", b)

BuildAccessList ==
    /\ Chained
    /\ \E l \in BuilderAccessLists :
          out' = Ok(access_list(out.val, l), <<>>) /\ Called("access_list", l)

BuildNonce ==
    /\ Chained
    /\ \E v \in BuilderUints :
          out' = Ok(nonce(out.val, v), <<>>) /\ Called("nonce", v)

BuildChainId ==
    /\ Chained
    /\ \E v \in BuilderUints :
          out' = Ok(chain_id(out.val, v), <<>>) /\ Called("chain_id", v)

Next ==
    \/ FastrlpEncode
    \/ FastrlpDecodeEncoded
    \/ RlpEncode
    \/ RlpDecodeEncoded
    \/ FastrlpDecodeWire
    \/ LogDecodeWire
    \/ TypedDecodeWire
    \/ TypedEncodeTx
    \/ TypedDecodeEncoded
    \/ LogEncodeLog
    \/ LogDecodeEncoded
    \/ LogRlpEncodeLog
    \/ KindEncode
    \/ KindDecodeEncoded
    \/ RecipientRlpEncode
    \/ RecipientFastrlpEncode
    \/ LegacyDecodeItems
    \/ EIP2930DecodeItems
    \/ EIP1559DecodeItems
    \/ DecodeSignedItems
    \/ LegacyChainIdOf
    \/ HashTx
    \/ RecoverTx
    \/ RecipientSerialize
    \/ RecipientRlpDecodeEncoded
    \/ RecipientFastrlpDecodeEncoded
    \/ ContractEqOf
    \/ ContractHashOf
    \/ HashAgain
    \/ RecipientRlpDecodeItem
    \/ New
    \/ BuildFrom
    \/ BuildTo
    \/ BuildGas
    \/ BuildMaxPriorityFeePerGas
    \/ BuildMaxFeePerGas
    \/ BuildValue
    \/ BuildData
    \/ BuildAccessList
    \/ BuildNonce
    \/ BuildChainId

Spec == Init /\ [][Next]_vars

----------------------------------------------------------------------------
(* Claims                                                                  *)

\* C1: for every unsigned fee-market body, decoding the bytes an encoder wrote
\* for it returns a body equal to the original, both for the fastrlp
\* encode/decode pair and for rlp() followed by decode_base_rlp.
C1_RoundTrip ==
    op \in {"fastrlp_roundtrip", "rlp_roundtrip"} =>
        out.st = "ok" /\ out.val = inp.val

\* what a decoder returned, down to the kind of failure
Same(a, b) == a.st = b.st /\ (a.st = "ok" => a.val = b.val)

StringHeader(n) ==
    IF n <= 55 THEN <<128 + n>> ELSE <<183 + Len(BE(n))>> \o BE(n)

\* the inner list of a typed transaction
InnerList(tx) == IF tx.variant = "EIP2930" THEN EIP2930Encode(tx) ELSE EIP1559Encode(tx)

\* the type byte of a typed transaction
TypeByte(tx) == IF tx.variant = "EIP2930" THEN 1 ELSE 2

MinimalUintFields(r) ==
    [i \in {2, 3, 4, 5, 7} |->
        RlpEncodeValue(OrDefault(
            <<r.chain_id, r.nonce, r.max_priority_fee_per_gas, r.max_fee_per_gas,
              r.gas, r.to, r.value>>[i]))]

\* C5: every unsigned integer field the fee-market fastrlp encoder writes
\* (nonce, max_priority_fee_per_gas, max_fee_per_gas, gas, value) is in minimal
\* big-endian form for every value up to 2^256 - 1: 0 is the empty string
\* (0x80), 0x7f the byte 0x7f, 0x80 the bytes 0x81 0x80, and no value has a
\* leading zero byte.
C5_MinimalIntegers ==
    op = "fastrlp_encode" =>
        /\ out.st = "ok"
        /\ Drop(out.val, Len(Eip1559Header(inp.val)))
             = Flatten([i \in 1..9 |->
                   IF i \in {2, 3, 4, 5, 7} THEN MinimalUintFields(inp.val)[i]
                   ELSE Eip1559Fields(inp.val)[i]])

\* the list header of a payload of n bytes: 0xc0 + n up to 55, otherwise
\* 0xf7 + the number of length bytes, then n in big-endian
ListHeader(n) ==
    IF n <= 55 THEN <<192 + n>> ELSE <<247 + Len(BE(n))>> \o BE(n)

\* the same with length_of_length(n) length bytes, n padded to that width
ListHeaderPadded(n) ==
    IF n <= 55 THEN <<192 + n>>
    ELSE <<247 + length_of_length(n)>> \o PutUint(n, length_of_length(n))

\* C6: the list header the fee-market fastrlp encoder writes for a payload of
\* length n is the byte 0xc0 + n when n <= 55, and otherwise the byte
\* 0xf7 + length_of_length(n) followed by n in big-endian; the header byte is
\* the first byte written and the whole header precedes the fields.
C6_ListHeader ==
    op = "fastrlp_encode" /\ out.st = "ok" =>
        \E h \in {ListHeader(Eip1559Length(inp.val)),
                  ListHeaderPadded(Eip1559Length(inp.val))} :
            out.val = h \o Flatten(Eip1559Fields(inp.val))

\* C7: on every byte sequence (empty, truncated anywhere, or announcing more
\* length bytes than it holds) the fee-market fastrlp decoder and the Log
\* decoder return a value or a decode error; neither panics nor reads past
\* the end of the buffer.
C7_DecodeNeverPanics ==
    op \in {"fastrlp_decode_wire", "log_decode_wire"} => out.st \in {"ok", "err"}

\* the payload length the leading list header of w declares is readable and
\* exceeds the number of bytes that follow the header
DeclaredExceedsRemaining(w) ==
    /\ w # <<>>
    /\ w[1] >= 192
    /\ IF w[1] <= 247 THEN w[1] - 192 > Len(w) - 1
       ELSE /\ Len(w) >= 1 + (w[1] - 247)
            /\ BytesToNat(SubSeq(w, 2, 1 + (w[1] - 247))) > Len(w) - 1 - (w[1] - 247)

\* C8: the fee-market fastrlp decoder never returns a transaction from a
\* buffer whose leading list header declares more payload bytes than remain.
C8_DeclaredLengthChecked ==
    op = "fastrlp_decode_wire" /\ DeclaredExceedsRemaining(inp.val) => out.st # "ok"

\* C9: every encoder of a recipient (TransactionKind::Call, and
\* NameOrAddress::Address in the rlp and in the fastrlp encoder) writes the
\* all-zero address as the empty string, the single byte 0x80.
C9_ZeroAddressEmpty ==
    /\ op = "kind_encode" /\ inp.val = Call(ZeroAddress) => out.val = <<128>>
    /\ op \in {"recipient_rlp_encode", "recipient_fastrlp_encode"}
         /\ inp.val = Address(ZeroAddress) => out.val = <<128>>

\* C10: Call(zero address) and Create encode to the same bytes, and both
\* decode back to the absent recipient, Create.
C10_ZeroAddressIsCreate ==
    inp.kind = "txkind" /\ inp.val \in {Create, Call(ZeroAddress)} =>
        /\ op = "kind_encode" => out.val = TransactionKindEncode(Create)
        /\ op = "kind_roundtrip" => out.st = "ok" /\ out.val = Create

\* the fixed field count of the body decoder an operation applies
FieldCount(o) ==
    IF o = "legacy_decode_items" THEN 9
    ELSE IF o = "eip2930_decode_items" THEN 11 ELSE 12

\* C11: each signed body decoder rejects every list whose item count differs
\* from its field count (Legacy 9, Access-list 11, Fee-market 12) with the
\* wrong-field-count error RlpIncorrectListLen, whatever the items are: no
\* field is read before the count is checked, so a bad item in such a list
\* never shows as a field error.
C11_WrongFieldCount ==
    op \in {"legacy_decode_items", "eip2930_decode_items", "eip1559_decode_items"}
    /\ Len(inp.val) # FieldCount(op)
        => out = Err("RlpIncorrectListLen")

\* C11 witness: a list of ten items whose first item is a 33-byte string was
\* rejected by the Legacy decoder for its count
C11_Witness ==
    /\ op = "legacy_decode_items"
    /\ Len(inp.val) = 10 /\ inp.val[1] = RlpEncodeValue(Rep(1, 33))
    /\ out.err = "RlpIncorrectListLen"

\* C12: decode_signed_rlp succeeds only when the list has exactly 12 items; a
\* list with fewer or more than 12 items is rejected.
C12_ExactlyTwelveItems ==
    op = "decode_signed_items" /\ out.st = "ok" => Len(inp.val) = 12

\* C13: for every legacy transaction chain_id() is derived from v alone: it is
\* Some((v - 35) / 2) when v > 36 and None when v <= 36, so v = 37 gives
\* Some(1) and v = 27 gives None; the subtraction never underflows.
C13_ChainIdFromV ==
    op = "chain_id" =>
        LET v == BytesToNat(inp.val.signature.v) IN
        /\ out.st = "ok"
        /\ v > 36 => out.val = Some((v - 35) \div 2)
        /\ v <= 36 => out.val = None
        /\ v = 37 => out.val = Some(1)
        /\ v = 27 => out.val = None

\* C13 witness: chain_id() of a legacy transaction with v = 37 returned Some(1)
C13_Witness ==
    /\ op = "chain_id"
    /\ inp.val.signature.v = <<37>>
    /\ out.val = Some(1)

\* the nine items written for a legacy transaction, v, r and s last
LegacyItems(tx) ==
    << RlpEncodeValue(tx.nonce), RlpEncodeValue(tx.gas_price),
       RlpEncodeValue(tx.gas_limit), TransactionKindEncode(tx.kind),
       RlpEncodeValue(tx.value), RlpEncodeValue(tx.input),
       RlpEncodeValue(tx.signature.v), RlpEncodeValue(tx.signature.r),
       RlpEncodeValue(tx.signature.s) >>

\* C14: hash() is Keccak-256 of exactly these bytes: for Legacy the encoded
\* 9-item list including v, r and s; for Access-list the byte 0x01 followed by
\* the encoded 11-item inner list; for Fee-market the byte 0x02 followed by the
\* encoded 12-item inner list, with no string header around the typed preimage.
C14_HashPreimage ==
    op = "hash" =>
        IF inp.val.variant = "Legacy"
        THEN out.val = keccak256(ListHeader(Len(Flatten(LegacyItems(inp.val))))
                                   \o Flatten(LegacyItems(inp.val)))
        ELSE /\ out.val = keccak256(<<TypeByte(inp.val)>> \o InnerList(inp.val))
             /\ Len(Items(InnerList(inp.val))) = 10 + TypeByte(inp.val)
             /\ out.val # keccak256(TypedEncode(inp.val))

\* C14 witness: a Fee-market transaction was hashed and the preimage starts
\* with the type byte 0x02, a list header next
C14_Witness ==
    /\ op = "hash"
    /\ inp.val.variant = "EIP1559"
    /\ out.val.keccak256[1] = 2 /\ out.val.keccak256[2] >= 192

\* C15: recover() on an Access-list or Fee-market transaction builds the
\* 65-byte compact signature r || s || recovery_id, where recovery_id is the
\* stored parity bit itself (0 or 1, no chain-id arithmetic), and recovers
\* over the hash of the unsigned request built from the transaction (the type
\* byte and the fields without parity, r, s), not over hash() of the signed
\* transaction.
C15_RecoverParityAndSighash ==
    op = "recover" /\ out.st = "ok" =>
        /\ out.val.signature.r = inp.val.r /\ Len(inp.val.r) = 32
        /\ out.val.signature.s = inp.val.s /\ Len(inp.val.s) = 32
        /\ out.val.recovery_id = (IF inp.val.odd_y_parity THEN 1 ELSE 0)
        /\ out.val.signature.v = out.val.recovery_id
        /\ out.val.hash # TypedHash(inp.val)
        /\ out.val.hash.keccak256[1] = TypeByte(inp.val)
        /\ Len(Items(Tail(out.val.hash.keccak256))) = 7 + TypeByte(inp.val)
        /\ Items(Tail(out.val.hash.keccak256))
             = SubSeq(Items(InnerList(inp.val)), 1, 7 + TypeByte(inp.val))

\* C15 witness: an Access-list transaction with odd parity recovered with
\* recovery id 1
C15_Witness ==
    /\ op = "recover" /\ out.st = "ok"
    /\ inp.val.variant = "EIP2930" /\ inp.val.odd_y_parity
    /\ out.val.recovery_id = 1

\* C16: serializing (serde) a NameOrAddress that holds an unresolved name
\* always returns an error and emits no value; serializing one that holds an
\* address yields exactly what serializing the bare address yields.
C16_NameNotSerialized ==
    op = "recipient_serialize" =>
        IF inp.val.tag = "Name" THEN out.st = "err" /\ out.val = <<>>
        ELSE out.st = "ok" /\ out = AddressSerialize(inp.val.val)

\* C16 witness: the name was handed to the serializer and an error came back
C16_Witness ==
    /\ op = "recipient_serialize"
    /\ inp.val = Name
    /\ out.st = "err"

\* C17 as stated: encoding a NameOrAddress that holds a name writes zero
\* bytes, in the rlp encoder and in the fastrlp encoder (whose length() is 0
\* for a name); encoding one that holds an address writes exactly the bytes
\* that encoding the bare address writes: the header 0x94 and the 20 bytes.
C17_AddressAsBareAddress ==
    op \in {"recipient_rlp_encode", "recipient_fastrlp_encode"} =>
        IF inp.val.tag = "Name"
        THEN out.val = <<>> /\ NameOrAddressLength(inp.val) = 0
        ELSE out.val = <<148>> \o inp.val.val

\* C17, amended: a name writes zero bytes in both encoders and the fastrlp
\* length() of a name is 0; an address is written by the rlp encoder exactly
\* as the bare address is (0x94 and the 20 bytes); the fastrlp encoder writes
\* a non-zero address as the bare address is written, and the zero address as
\* the single byte 0x80, with length() 1.
C17_NameWritesNothing ==
    op \in {"recipient_rlp_encode", "recipient_fastrlp_encode"} =>
        IF inp.val.tag = "Name"
        THEN out.val = <<>> /\ NameOrAddressLength(inp.val) = 0
        ELSE IF op = "recipient_fastrlp_encode" /\ inp.val.val = Rep(0, 20)
        THEN out.val = <<128>> /\ NameOrAddressLength(inp.val) = 1
        ELSE out.val = <<148>> \o inp.val.val

\* C17 witness: the fastrlp encoder was applied to a name and wrote nothing
C17_Witness ==
    /\ op = "recipient_fastrlp_encode"
    /\ inp.val.tag = "Name"
    /\ out.val = <<>>

\* C18: for every 20-byte address a, the zero address included, decoding the
\* encoding of NameOrAddress::Address(a) returns NameOrAddress::Address(a),
\* with the fastrlp codec and with the rlp codec.
C18_AddressRoundTrip ==
    op \in {"recipient_rlp_roundtrip", "recipient_fastrlp_roundtrip"}
    /\ inp.val.tag = "Address"
        => out.st = "ok" /\ out.val = inp.val

\* the set of (chain, address) pairs a Contract holds
PairsOf(q) == {q[i] : i \in 1..Len(q)}

\* C19: equality and hash of a Contract do not depend on the iteration order
\* of its map: two Contracts holding the same set of (chain, address) pairs
\* compare equal and hash to the same value whatever order the maps yield the
\* pairs in.
C19_OrderIndependent ==
    inp.kind = "contracts" /\ PairsOf(inp.val.self) = PairsOf(inp.val.other) =>
        /\ op = "contract_eq" => out.val = TRUE
        /\ op = "contract_hash" => out.val = Finish(ContractHash(inp.val.other, <<>>))

\* the fields of a request in the order claimed for the unsigned list, the
\* access list apart
BaseFields(r) ==
    << r.chain_id, r.nonce, r.max_priority_fee_per_gas, r.max_fee_per_gas, r.gas,
       r.to, r.value, r.data >>

\* the items of the list rlp() wrote are nine, in the order chain_id, nonce,
\* max_priority_fee_per_gas, max_fee_per_gas, gas_limit, recipient, value,
\* input, access_list
NineItemsInOrder(r, items) ==
    /\ Len(items) = 9
    /\ \A i \in {1, 2, 3, 4, 5, 7, 8} :
          items[i] = RlpEncodeValue(OrDefault(BaseFields(r)[i]))
    /\ r.to = None => items[6] = <<128>>
    /\ r.to # None /\ r.to[1].tag = "Address" => items[6] = <<148>> \o r.to[1].val
    /\ items[9] = RlpAccessListEncode(r.access_list)

\* C20: the unsigned fee-market encoding produced by rlp() is, for every
\* request (whatever fields are absent and whether `to` is an address, a name
\* or absent), a list of exactly 9 items in the order chain_id, nonce,
\* max_priority_fee_per_gas, max_fee_per_gas, gas_limit, recipient, value,
\* input, access_list; the signed body encoder and decoder use the same order
\* followed by parity, r, s.
C20_NineItemsInOrder ==
    /\ op = "rlp_encode" =>
          out.val[1] >= 192 /\ NineItemsInOrder(inp.val, Items(out.val))
    /\ op = "typed_encode" /\ inp.val.variant = "EIP1559" =>
          Items(InnerList(inp.val))
            = << RlpEncodeValue(inp.val.chain_id), RlpEncodeValue(inp.val.nonce),
                 RlpEncodeValue(inp.val.max_priority_fee_per_gas),
                 RlpEncodeValue(inp.val.max_fee_per_gas),
                 RlpEncodeValue(inp.val.gas_limit),
                 TransactionKindEncode(inp.val.kind), RlpEncodeValue(inp.val.value),
                 RlpEncodeValue(inp.val.input),
                 RlpAccessListEncode(inp.val.access_list),
                 RlpBoolEncode(inp.val.odd_y_parity),
                 RlpEncodeValue(StripZeros(inp.val.r)),
                 RlpEncodeValue(StripZeros(inp.val.s)) >>
    /\ op = "typed_roundtrip" /\ inp.val.variant = "EIP1559" =>
          out.st = "ok" /\ out.val = inp.val

\* C22: decoding a fee-market body has no effect other than consuming bytes
\* from the input buffer and returning a result: it writes nothing to standard
\* output, on success and on failure.
C22_DecodePrintsNothing == stdout = <<>>

C23_TypedRoundTrip ==
    op = "typed_roundtrip" =>
        /\ out.st = "ok"
        /\ out.val.variant = inp.val.variant
        /\ out.val = inp.val

\* C23 witness: an Access-list transaction to the zero address with parity
\* false, r zero and an empty input came back from the decoder as it was
C23_Witness ==
    /\ op = "typed_roundtrip"
    /\ inp.val.variant = "EIP2930"
    /\ inp.val.kind = Call(ZeroAddress) /\ ~inp.val.odd_y_parity
    /\ inp.val.r = Rep(0, 32) /\ inp.val.input = <<>>
    /\ out.st = "ok" /\ out.val = inp.val

\* C24: the value length() returns for a fee-market request equals the number
\* of bytes encode() writes after the list header, for values 0, 0x7F, 0x80
\* and values whose bit length is a multiple of 8 as well.
C24_LengthCountsBytesWritten ==
    op = "fastrlp_encode" /\ out.st = "ok" =>
        Len(out.val) - Len(Eip1559Header(inp.val)) = Eip1559Length(inp.val)

\* C25: for every value of the five integer fields, bit length 256 included,
\* encode() computes each slice start without underflow and slices inside the
\* 32-byte container, so it returns instead of panicking.
C25_EncodeSlicesInRange ==
    op = "fastrlp_encode" =>
        /\ \A o \in {inp.val.nonce, inp.val.max_priority_fee_per_gas,
                      inp.val.max_fee_per_gas, inp.val.gas, inp.val.value} :
               UintSliceStart(OrDefault(o)) \in 0..31
        /\ out.st = "ok"

\* C26: for every log, the zero address included, the rlp Log encoder and the
\* fastrlp Log encoder write the same bytes, and the fastrlp Log decoder
\* restores the address, the topics and the data from them.
C26_LogEncodersAgree ==
    /\ op = "log_rlp_encode" => out.val = LogEncode(inp.val)
    /\ op = "log_encode" => out.val = LogRlpEncode(inp.val)
    /\ op = "log_roundtrip" => out.st = "ok" /\ out.val = inp.val

\* what the read of item i (from 0) of a signed fee-market list gives: the
\* nine body fields, then v, r and s
SignedItemDecode(items, i) ==
    IF i + 1 > Len(items) THEN Err("RlpIsTooShort")
    ELSE IF i < 9 THEN BaseFieldDecode(Eip1559FieldKinds[i + 1], items[i + 1])
    ELSE RlpFieldDecode(IF i = 9 THEN "u64" ELSE "u256", items[i + 1])

\* what decode_signed_rlp returns when items 0..11 decoded to d
SignedDecoded(d) ==
    [txn |-> [DecodedRequest([i \in 1..9 |-> d[i - 1].val]) EXCEPT !.from = Some(AddrA)],
     sig |-> [v |-> d[9].val, r |-> d[10].val, s |-> d[11].val],
     over |-> RequestSigHash(DecodedRequest([i \in 1..9 |-> d[i - 1].val]))]

\* C27: decode_signed_rlp reads the nine body fields from items 0..8 and v, r,
\* s from items 9, 10, 11; when it succeeds the request's from is the address
\* recovered from that signature over the request's sighash, and when a field
\* fails to decode or the recovery fails it returns an error and no request.
C27_SignedFieldsAndSigner ==
    op = "decode_signed_items" =>
        LET d == [i \in 0..11 |-> SignedItemDecode(inp.val, i)] IN
        IF \A i \in 0..11 : d[i].st = "ok"
        THEN \/ out = Ok(SignedDecoded(d), <<>>)
             \/ out = Err("RecoveryError")
        ELSE out.st = "err" /\ out.err # "RecoveryError" /\ out.val = <<>>

\* C27 witness: a list of twelve items decoded to a request whose from is the
\* recovered address and whose signature is the last three items
C27_Witness ==
    /\ op = "decode_signed_items" /\ Len(inp.val) = 12
    /\ out.st = "ok"
    /\ out.val.txn.from = Some(AddrA)
    /\ out.val.txn.chain_id = Some(<<1>>)
    /\ out.val.sig = [v |-> <<>>, r |-> <<9>>, s |-> <<5>>]
    /\ out.val.over = RequestSigHash([out.val.txn EXCEPT !.from = None])

\* C28: the rlp NameOrAddress decoder accepts exactly the data items whose
\* payload is 20 bytes long; a list is rejected as expected-to-be-data, a
\* payload longer than 20 bytes as too big, and a shorter one, the empty
\* payload included, as too short.
C28_ExactlyTwentyBytes ==
    op = "recipient_rlp_decode" =>
        IF IsList(inp.val) THEN out = Err("RlpExpectedToBeData")
        ELSE IF RlpSize(inp.val) = 20
             THEN out = Ok(Address(SubSeq(inp.val, 2, 21)), <<>>)
        ELSE IF RlpSize(inp.val) > 20 THEN out = Err("RlpIsTooBig")
        ELSE out = Err("RlpIsTooShort")

\* the fields the builders set
BuilderFields ==
    {"from", "to", "gas", "max_priority_fee_per_gas", "max_fee_per_gas", "value",
     "data", "access_list", "nonce", "chain_id"}

RECURSIVE LastArgument(_, _, _)
\* what field f holds after the calls: the argument of the last call of the
\* builder f (as it is for the access list, in Some otherwise), and the value
\* new() gave it when the builder was never called
LastArgument(calls, f, initial) ==
    IF calls = <<>> THEN initial
    ELSE IF calls[Len(calls)][1] = f
         THEN IF f = "access_list" THEN calls[Len(calls)][2]
              ELSE Some(calls[Len(calls)][2])
    ELSE LastArgument(SubSeq(calls, 1, Len(calls) - 1), f, initial)

\* C29: after any chain of builder calls on Eip1559TransactionRequest::new(),
\* each field holds the argument of the last call of its builder, a field
\* whose builder was never called keeps the value new() gave it, and so no
\* builder changes a field other than its own.
C29_BuildersSetOwnField ==
    inp.kind = "builder" /\ op \in {"new", "build"} =>
        /\ out.st = "ok"
        /\ \A f \in BuilderFields :
               out.val[f] = LastArgument(inp.val, f, NewRequest[f])

\* C29 witness: gas was set twice and chain_id once; gas holds the second
\* argument and the nonce is still None
C29_Witness ==
    /\ inp.kind = "builder" /\ op = "build"
    /\ inp.val = << <<"gas", <<1>>>>, <<"chain_id", <<1>>>>, <<"gas", <<2, 0>>>> >>
    /\ out.val.gas = Some(<<2, 0>>)
    /\ out.val.chain_id = Some(<<1>>)
    /\ out.val.nonce = None /\ out.val.access_list = <<>>

====
